---------------------------- MODULE Spec2Model ----------------------------
(* A model of the Prospect-to-Lead agent workflow:                         *)
(*   agents/base_agent.py   ReActAgent.run, _call_llm, __call__            *)
(*   langgraph_builder.py   update_state, create_agent_instance, main      *)
(*   tools/api_tools.py     AVAILABLE_TOOLS and the tools' signatures      *)
(*                                                                         *)
(* Python values are encoded so that TLC never compares values of          *)
(* different shapes: a dict with string keys is a function on a set of     *)
(* strings, a JSON value is a record [t, d, s] tagged with its type, a     *)
(* text is a sequence of tokens.                                           *)
EXTENDS Naturals, Sequences, FiniteSets, TLC

VARIABLES
    config,         \* config['steps']: the loaded, ordered step definitions
    pc,             \* position of the run: "wait", "run", "dispatch", "merge", "END", "halted"
    idx,            \* 1-based index of the node being executed
    state,          \* AgentState['steps']: the WorkflowState mapping
    run_state,      \* the `state` argument the running agent was called with
    llm_content,    \* response.content of the language-model call of this step
    response_json,  \* what _call_llm returned to run
    params,         \* run's local `params` after the config merge
    output,         \* run's local `output`
    invoked,        \* tool bodies entered during this step: <<[name, kwargs]>>
    tool_exception, \* str(e) of the exception tool_function(**params) raised, or PyNone
    llm_calls,      \* how often self.llm.invoke was called during this step
    fault,          \* "none", or the exception that left the process
    trace,          \* ids of the agents invoked so far, in order
    recorded,       \* the fragments merged so far, in order
    slept           \* the sleeps of the delay wrapper: <<[node, seconds]>>

vars == <<config, pc, idx, state, run_state, llm_content, response_json,
          params, output, invoked, tool_exception, llm_calls, fault, trace,
          recorded, slept>>

-----------------------------------------------------------------------------
(* Bounds of the exploration.                                              *)

\* longest configured workflow explored
MaxSteps == 2

-----------------------------------------------------------------------------
(* Python values.                                                          *)

\* a dict with no key
EmptyDict == [k \in {} |-> ""]

\* JSON null / Python None where a string is expected
PyNone == "<None>"

\* str(x) for a string or None, as an f-string formats it
PyStr(x) == IF x = PyNone THEN "None" ELSE x

\* a JSON object whose values are strings
Dict(d) == [t |-> "dict", d |-> d, s |-> ""]

\* a JSON string that is not an object
Scalar(s) == [t |-> "str", d |-> EmptyDict, s |-> s]

\* JSON null as a value
Null == [t |-> "null", d |-> EmptyDict, s |-> ""]

\* JSON empty list as a value
EmptyList == [t |-> "list", d |-> EmptyDict, s |-> ""]

\* isinstance(v, dict)
IsMapping(v) == v.t = "dict"

\* the error payloads run builds
ErrorOutput(msg) == Dict([error |-> msg])

-----------------------------------------------------------------------------
(* tools/api_tools.py: the registry and what inspect.signature sees.       *)

\* one parameter of a signature
Param(name, has_default) == [name |-> name, has_default |-> has_default]

\* AVAILABLE_TOOLS, each tool given by its declared parameters in order
AVAILABLE_TOOLS ==
    [ search_apollo |-> << Param("api_key", FALSE), Param("icp", FALSE) >>,
      search_clay |-> << Param("api_key", FALSE), Param("table_webhook", FALSE),
                         Param("icp", FALSE) >>,
      enrich_with_pdl |-> << Param("api_key", FALSE), Param("email", FALSE) >>,
      send_email_sendgrid |-> << Param("api_key", FALSE), Param("to_email", FALSE),
                                 Param("from_email", FALSE), Param("subject", FALSE),
                                 Param("body", FALSE) >>,
      track_apollo_campaign |-> << Param("api_key", FALSE), Param("campaign_id", FALSE) >>,
      write_to_google_sheet |-> << Param("sheet_id", TRUE), Param("sheet_name", TRUE),
                                   Param("data", TRUE), Param("credentials_path", TRUE) >> ]

\* the keys of AVAILABLE_TOOLS
ToolNames == DOMAIN AVAILABLE_TOOLS

\* the parameter names of a signature
SigNames(sig) == { sig[i].name : i \in 1..Len(sig) }

\* a tool body returning `value`
Returned(value) == [raised |-> FALSE, value |-> value, msg |-> ""]

\* a tool body raising an exception whose str() is `msg`
Raised(msg) == [raised |-> TRUE, value |-> Null, msg |-> msg]

\* {"status": "success", ...}
ObsSuccess == Dict([status |-> "success"])

\* {"status": "error", "message": ...}
ObsError == Dict([status |-> "error", message |-> "<response text>"])

\* what a tool body can do once entered: the mappings it returns, and an
\* exception where a network call or a constructor stands outside any try
ToolOutcomes(name) ==
    CASE name = "search_apollo" ->
            { Returned(ObsSuccess), Returned(ObsError), Raised("timeout") }
      [] name = "search_clay" ->
            { Returned(ObsSuccess), Returned(ObsError), Raised("timeout") }
      [] name = "enrich_with_pdl" ->
            { Returned(ObsSuccess), Returned(ObsError) }
      [] name = "send_email_sendgrid" ->
            { Returned(ObsSuccess), Returned(ObsError), Raised("timeout") }
      [] name = "track_apollo_campaign" ->
            { Returned(ObsSuccess), Raised("timeout") }
      [] OTHER ->
            { Returned(ObsSuccess), Returned(ObsError) }

-----------------------------------------------------------------------------
(* The objects a model response can carry.                                 *)

\* the value of `parameters`: absent, an object, null or a list
NoParameters == [t |-> "absent", d |-> EmptyDict]
ParamDict(d) == [t |-> "dict", d |-> d]
ParamNull == [t |-> "null", d |-> EmptyDict]
ParamList == [t |-> "list", d |-> EmptyDict]

\* the value of `action` when it is an object {tool_name?, parameters?}
ActionDict(tool_name, parameters) ==
    [t |-> "dict", tool_name |-> tool_name, parameters |-> parameters]

\* the value of `action` when it is a string, null or a list
ActionOther(t) == [t |-> t, tool_name |-> PyNone, parameters |-> NoParameters]

\* a parsed JSON object: its top-level keys and the values run reads
Response(keys, action, final_answer, error) ==
    [keys |-> keys, action |-> action, final_answer |-> final_answer, error |-> error]

\* {"thought": ..., "action": a}
ToolCall(a) == Response({"thought", "action"}, a, Null, "")

\* {"thought": ..., "final_answer": v}
FinalAnswer(v) == Response({"thought", "final_answer"}, ActionOther("null"), v, "")

\* {"thought": ..., "action": a, "final_answer": v}
Both(a, v) == Response({"thought", "action", "final_answer"}, a, v, "")

\* {"thought": ...}: neither envelope
Neither == Response({"thought"}, ActionOther("null"), Null, "")

\* {}
EmptyObject == Response({}, ActionOther("null"), Null, "")

\* what _call_llm returns when it cannot decode
InvalidJSON ==
    Response({"error"}, ActionOther("null"), Null, "Invalid JSON output from LLM.")

-----------------------------------------------------------------------------
(* Text.  A string is a sequence of tokens: an opening or closing brace, a *)
(* run of whitespace, a run of brace-free commentary, or the member list   *)
(* of a JSON object (everything between its outermost braces).             *)

\* a token that carries no object
Tok(k) == [k |-> k, obj |-> EmptyObject]

LB == Tok("{")
RB == Tok("}")
WS == Tok(" ")
Txt == Tok("txt")

\* the members of the non-empty object o, as they stand between its braces
Members(o) == [k |-> "members", obj |-> o]

\* json.dumps of the object o
Dumps(o) == IF o = EmptyObject THEN << LB, RB >> ELSE << LB, Members(o), RB >>

\* response.content when it is a str
StrContent(s) == [t |-> "str", s |-> s, l |-> << >>]

\* response.content when it is a list of fragments
ListContent(l) == [t |-> "list", s |-> << >>, l |-> l]

\* a list item that is a dict with a "text" entry
TextFragment(s) == [t |-> "dict", has_text |-> TRUE, text |-> s]

\* a list item that is a dict without a "text" entry
OtherFragment == [t |-> "dict", has_text |-> FALSE, text |-> << >>]

\* a list item that is a plain str
StrFragment(s) == [t |-> "str", has_text |-> FALSE, text |-> s]

\* str(item): a str is itself, a dict is its repr, braces included
StrOfItem(item) ==
    IF item.t = "str" THEN item.text
    ELSE IF item.has_text THEN << LB, Txt >> \o item.text \o << Txt, RB >>
    ELSE << LB, Txt, RB >>

\* " ".join(str(item) for item in items)
RECURSIVE Join(_)
Join(items) ==
    IF Len(items) = 0 THEN << >>
    ELSE IF Len(items) = 1 THEN StrOfItem(items[1])
    ELSE StrOfItem(items[1]) \o << WS >> \o Join(Tail(items))

\* s.lstrip()
RECURSIVE LStrip(_)
LStrip(s) == IF Len(s) > 0 /\ s[1] = WS THEN LStrip(Tail(s)) ELSE s

\* s.rstrip()
RECURSIVE RStrip(_)
RStrip(s) ==
    IF Len(s) > 0 /\ s[Len(s)] = WS THEN RStrip(SubSeq(s, 1, Len(s) - 1)) ELSE s

\* s.strip()
Strip(s) == LStrip(RStrip(s))

\* _call_llm lines 111-125: the content reduced to one stripped string
Normalize(content) ==
    IF content.t = "list"
    THEN IF Len(content.l) > 0 /\ content.l[1].t = "dict"
         THEN IF content.l[1].has_text THEN Strip(content.l[1].text) ELSE << >>
         ELSE Strip(Join(content.l))
    ELSE Strip(content.s)

\* s.find('{') + 1: the 1-based position of the first one, 0 when there is none
Find(s, tok) ==
    IF \E i \in 1..Len(s) : s[i] = tok
    THEN CHOOSE i \in 1..Len(s) : s[i] = tok /\ \A j \in 1..(i - 1) : s[j] # tok
    ELSE 0

\* s.rfind('}') + 1: the 1-based position of the last one, 0 when there is none
RFindPlus1(s, tok) ==
    IF \E i \in 1..Len(s) : s[i] = tok
    THEN CHOOSE i \in 1..Len(s) : s[i] = tok /\ \A j \in (i + 1)..Len(s) : s[j] # tok
    ELSE 0

\* the text with its whitespace tokens dropped: JSON ignores them between tokens
RECURSIVE Squeeze(_)
Squeeze(s) ==
    IF Len(s) = 0 THEN << >>
    ELSE IF s[1] = WS THEN Squeeze(Tail(s))
    ELSE << s[1] >> \o Squeeze(Tail(s))

\* whether json.loads(s) returns: s is one object and nothing else
Decodes(s) ==
    LET q == Squeeze(s) IN
    \/ q = << LB, RB >>
    \/ Len(q) = 3 /\ q[1] = LB /\ q[2].k = "members" /\ q[3] = RB

\* json.loads(s) where it returns
Loads(s) ==
    LET q == Squeeze(s) IN IF Len(q) = 2 THEN EmptyObject ELSE q[2].obj

\* no extraction: the whole text is handed to json.loads
JsonStrWhole(content) == content

\* content[json_start:json_end]
JsonStr(content) == SubSeq(content, Find(content, LB), RFindPlus1(content, RB))

\* _call_llm lines 128-138 on the normalized text
ParseText(content) ==
    IF Find(content, LB) # 0 /\ Decodes(JsonStr(content))
    THEN Loads(JsonStr(content))
    ELSE InvalidJSON

\* _call_llm: the object run receives for a returned response.content
call_llm(content) == ParseText(Normalize(content))

-----------------------------------------------------------------------------
(* agents/base_agent.py: ReActAgent.run, lines 51-103.                     *)

\* what leaves run: a returned output, or the exception that escapes it
Outcome(f, out, p, inv, exc) ==
    [fault |-> f, output |-> out, params |-> p, invoked |-> inv, exc |-> exc]

\* output = {} of line 51, never returned as such
NoOutput == Dict(EmptyDict)

\* run raising `exc` before it returns
Escapes(exc, p) == Outcome(exc, NoOutput, p, << >>, PyNone)

\* run reaching line 103 with `out`
Returns(out, p, inv) == Outcome("none", out, p, inv, PyNone)

\* action.get('parameters', {})
GetParameters(action) ==
    IF action.parameters.t = "absent" THEN ParamDict(EmptyDict) ELSE action.parameters

\* a lookup that settles for the agent's first binding, whatever its name
FindBindingAny(tools_config, tool_name) ==
    IF Len(tools_config) > 0 THEN 1 ELSE 0

\* next((t for t in self.tools_config if t['name'] == tool_name), None):
\* the position of the first binding of that name, 0 for None
FindBinding(tools_config, tool_name) ==
    IF \E i \in 1..Len(tools_config) : tools_config[i].name = tool_name
    THEN CHOOSE i \in 1..Len(tools_config) :
            /\ tools_config[i].name = tool_name
            /\ \A j \in 1..(i - 1) : tools_config[j].name # tool_name
    ELSE 0

\* MergeConfig with the guard of line 68 dropped: the config always wins
MergeConfigOverride(p, cfg) ==
    [k \in DOMAIN p \cup DOMAIN cfg |-> IF k \in DOMAIN cfg THEN cfg[k] ELSE p[k]]

\* lines 66-69: every config entry is written into params unless the model
\* gave that key a value other than None and ""
MergeConfig(p, cfg) ==
    [k \in DOMAIN p \cup DOMAIN cfg |->
        IF k \in DOMAIN cfg /\ (k \notin DOMAIN p \/ p[k] \in {PyNone, ""})
        THEN cfg[k] ELSE p[k]]

\* MissingRequired looking at the first parameter of the signature only
MissingRequiredFirstOnly(sig, p) ==
    IF Len(sig) > 0 /\ ~sig[1].has_default /\ sig[1].name \notin DOMAIN p
    THEN << sig[1].name >> ELSE << >>

\* lines 73-76: the names, in signature order, of the parameters without a
\* default that are not keys of params
MissingRequired(sig, p) ==
    LET Lacks(q) == ~q.has_default /\ q.name \notin DOMAIN p
        names == [i \in 1..Len(sig) |-> sig[i].name]
        Pick[i \in 0..Len(sig)] ==
            IF i = 0 THEN << >>
            ELSE IF Lacks(sig[i]) THEN Append(Pick[i - 1], names[i]) ELSE Pick[i - 1]
    IN Pick[Len(sig)]

\* the f-string form of a list of str: ['a', 'b']
RECURSIVE ReprItems(_)
ReprItems(names) ==
    IF Len(names) = 0 THEN ""
    ELSE IF Len(names) = 1 THEN "'" \o names[1] \o "'"
    ELSE "'" \o names[1] \o "', " \o ReprItems(Tail(names))

ReprList(names) == "[" \o ReprItems(names) \o "]"

\* line 78
MissingError(tool_name, missing) ==
    ErrorOutput("Missing required parameters for tool '" \o tool_name \o "': "
                \o ReprList(missing))

\* line 86
ExceptionError(tool_name, msg) ==
    ErrorOutput("Tool '" \o tool_name \o "' raised exception: " \o msg)

\* line 88
NoConfigError(tool_name) ==
    ErrorOutput("Tool configuration for '" \o tool_name \o "' not found for this agent.")

\* the else branches of lines 88 and 90 swapped
NotFoundAsNoConfig(tool_name) == NoConfigError(PyStr(tool_name))

\* line 90
NotFoundError(tool_name) ==
    ErrorOutput("Tool '" \o PyStr(tool_name) \o "' not found.")

\* line 100
InvalidFormatError == ErrorOutput("Invalid LLM response format.")

\* the call of line 82 without its try: the exception leaves run
Uncaught(tool_name, msg, p, inv) == Outcome("ToolException", NoOutput, p, inv, msg)

\* the except clause of lines 85-86: what an exception of the call becomes
Caught(tool_name, msg, p, inv) ==
    Outcome("none", ExceptionError(tool_name, msg), p, inv, msg)

\* lines 80-86: tool_function(**params) inside the try.  The call itself
\* raises TypeError when params is no mapping or names a parameter the
\* signature lacks; otherwise the body is entered and returns or raises.
InvokeTool(tool_name, p) ==
    LET sig == AVAILABLE_TOOLS[tool_name]
        unexpected == DOMAIN p.d \ SigNames(sig)
        call == [name |-> tool_name, kwargs |-> p.d]
    IN  IF p.t # "dict"
        THEN { Caught(tool_name,
                      tool_name \o "() argument after ** must be a mapping, not "
                      \o (IF p.t = "null" THEN "NoneType" ELSE "list"),
                      p, << >>) }
        ELSE IF unexpected # {}
        THEN { Caught(tool_name,
                      tool_name \o "() got an unexpected keyword argument '" \o k \o "'",
                      p, << >>) : k \in unexpected }
        ELSE { IF o.raised
               THEN Caught(tool_name, o.msg, p, << call >>)
               ELSE Returns(o.value, p, << call >>) : o \in ToolOutcomes(tool_name) }

\* lines 72-86: the required-parameter gate, then the call.  `pname not in
\* params` raises TypeError on None, holds of every name on an empty list
CheckAndInvoke(tool_name, p) ==
    LET sig == AVAILABLE_TOOLS[tool_name]
        required == \E i \in 1..Len(sig) : ~sig[i].has_default
        missing == IF p.t = "dict" THEN MissingRequired(sig, p.d)
                   ELSE MissingRequired(sig, EmptyDict)
    IN  IF p.t = "null" /\ required
        THEN { Escapes("TypeError", p) }
        ELSE IF Len(missing) > 0
        THEN { Returns(MissingError(tool_name, missing), p, << >>) }
        ELSE InvokeTool(tool_name, p)

\* lines 64-88: with a binding, merge its config and go on; `k not in params`
\* raises TypeError on None and `params[k] = v` raises TypeError on a list
WithBinding(tool_name, p, cfg) ==
    IF cfg = EmptyDict
    THEN CheckAndInvoke(tool_name, p)
    ELSE IF p.t = "dict"
    THEN CheckAndInvoke(tool_name, ParamDict(MergeConfig(p.d, cfg)))
    ELSE { Escapes("TypeError", p) }

\* lines 55-90: the tool-call branch; action.get raises AttributeError when
\* action is no mapping
ToolCallBranch(tools_config, action) ==
    IF action.t # "dict"
    THEN { Escapes("AttributeError", NoParameters) }
    ELSE LET tool_name == action.tool_name
             p == GetParameters(action)
             b == FindBinding(tools_config, tool_name)
         IN  IF tool_name \notin ToolNames
             THEN { Returns(NotFoundError(tool_name), p, << >>) }
             ELSE IF b = 0
             THEN { Returns(NoConfigError(tool_name), p, << >>) }
             ELSE WithBinding(tool_name, p, tools_config[b].config)

\* a final answer held to the shape of the output schema: anything but an
\* object is turned down
FinalAnswerChecked(final_answer) ==
    IF IsMapping(final_answer) THEN final_answer ELSE InvalidFormatError

\* line 96: output = response_json['final_answer']
FinalAnswerOutput(final_answer) == final_answer

\* the dispatch with its first two tests swapped: a final answer wins over
\* an action
RunOutcomesFinalFirst(tools_config, resp) ==
    IF "final_answer" \in resp.keys
    THEN { Returns(FinalAnswerOutput(resp.final_answer), NoParameters, << >>) }
    ELSE IF "action" \in resp.keys
    THEN ToolCallBranch(tools_config, resp.action)
    ELSE { Returns(InvalidFormatError, NoParameters, << >>) }

\* lines 51-103: every way run can end for the object _call_llm returned
RunOutcomes(tools_config, resp) ==
    IF "action" \in resp.keys
    THEN ToolCallBranch(tools_config, resp.action)
    ELSE IF "final_answer" \in resp.keys
    THEN { Returns(FinalAnswerOutput(resp.final_answer), NoParameters, << >>) }
    ELSE { Returns(InvalidFormatError, NoParameters, << >>) }

\* the merge done the other way round: the model's parameters are written
\* into the binding's config mapping
ToolsAfterRunAliased(tools_config, resp) ==
    LET b == IF "action" \in resp.keys /\ resp.action.t = "dict"
             THEN FindBinding(tools_config, resp.action.tool_name) ELSE 0
    IN  IF b # 0 /\ resp.action.parameters.t = "dict"
        THEN [tools_config EXCEPT
                ![b].config = MergeConfig(@, resp.action.parameters.d)]
        ELSE tools_config

\* self.tools_config when run ends: lines 63-69 read the binding and its
\* config and write into params only
ToolsAfterRun(tools_config, resp) == tools_config

\* the output returned bare, without the {"output": ...} wrapping
FragmentBare(agent_id, out) == (agent_id :> out)

\* line 103: {self.agent_id: {"output": output}}
Fragment(agent_id, out) == (agent_id :> [output |-> out])

-----------------------------------------------------------------------------
(* langgraph_builder.py: the workflow.                                     *)

\* update_state assigning the fragment instead of merging it
update_state_replace(steps, new_step_output) == new_step_output

\* update_state writing the new output under every key
update_state_clobber(steps, new_step_output) ==
    [k \in DOMAIN steps \cup DOMAIN new_step_output |->
        new_step_output[CHOOSE j \in DOMAIN new_step_output : TRUE]]

\* lines 14-16: current_state['steps'].update(new_step_output)
update_state(steps, new_step_output) == new_step_output @@ steps

\* line 90
delay_seconds == 30

\* every node wrapped, the first one too
NeedsDelayAlways(i) == TRUE

\* lines 85-96: node i (1-based) is the agent itself when it is the first,
\* the delayed wrapper of the agent otherwise
NeedsDelay(i) == i # 1

\* an edge list that skips a node
NextNodeSkip(i) == i + 2

\* lines 105-107: the edge out of node i leads to node i + 1
NextNode(i) == i + 1

\* lines 114-123: initial_state['steps']
initial_state ==
    ("initial_icp" :> [industry |-> "Software", location |-> "USA",
                       employee_range |-> "51-200",
                       signals |-> "hiring for sales roles"])

\* lines 41-64: a tool entry as create_agent_instance leaves it
Binding(name, cfg) == [name |-> name, config |-> cfg]

\* the step records workflows are drawn from, as loaded: what
\* create_agent_instance passes to the agent's constructor.  The third step's id is the key of the seed record.
StepDefs ==
    << [id |-> "enrichment",
        instructions |-> "Enrich the lead.",
        output_schema |-> [type |-> "object", required |-> "enriched_lead"],
        tools |-> << Binding("enrich_with_pdl", [api_key |-> "cfg-key"]) >>],
       [id |-> "tracking",
        instructions |-> "Track the campaign.",
        output_schema |-> [type |-> "object", required |-> "responses"],
        tools |-> << Binding("track_apollo_campaign",
                             [api_key |-> "cfg-key", campaign_id |-> "cfg-campaign"]),
                     Binding("write_to_google_sheet", EmptyDict),
                     Binding("send_email", [api_key |-> "cfg-key"]) >>],
       [id |-> "initial_icp",
        instructions |-> "Refine the profile.",
        output_schema |-> [type |-> "object", required |-> "industry"],
        tools |-> << Binding("enrich_with_pdl", EmptyDict) >>] >>

\* config['steps']: every list of 1..MaxSteps of these steps with distinct ids
Workflows ==
    { w \in UNION { [1..n -> { StepDefs[i] : i \in 1..Len(StepDefs) }] : n \in 1..MaxSteps } :
        \A i, j \in 1..Len(w) : i # j => w[i].id # w[j].id }

\* the ids of a workflow's steps, in order
Ids(w) == [i \in 1..Len(w) |-> w[i].id]

-----------------------------------------------------------------------------
(* What the language model may answer.                                     *)

\* the values the model may give each parameter it names
LLMParamValues ==
    [ api_key |-> {PyNone, "", "llm-key"},
      email |-> {"lead@example.com"},
      campaign_id |-> {"llm-campaign"} ]

\* every `parameters` object over those keys
LLMParamDicts ==
    UNION { { d \in [K -> UNION { LLMParamValues[k] : k \in DOMAIN LLMParamValues }] :
                \A k \in K : d[k] \in LLMParamValues[k] } :
            K \in SUBSET DOMAIN LLMParamValues }

\* every `parameters` value: absent, null, a list, an object
LLMParameters ==
    { NoParameters, ParamNull, ParamList } \cup { ParamDict(d) : d \in LLMParamDicts }

\* the tool names the model may give: registered ones, an unregistered one, none
LLMToolNames ==
    { "enrich_with_pdl", "track_apollo_campaign", "write_to_google_sheet",
      "send_email", PyNone }

\* every `action` value
LLMActions ==
    { ActionDict(n, p) : n \in LLMToolNames, p \in LLMParameters }
    \cup { ActionOther("str"), ActionOther("null"), ActionOther("list") }

\* the final answers the model may give: an object, a string, null
LLMFinalAnswers == { Dict([x |-> "1"]), Scalar("done"), Null }

\* every object the model may emit
LLMObjects ==
    { ToolCall(a) : a \in LLMActions }
    \cup { FinalAnswer(v) : v \in LLMFinalAnswers }
    \cup { Both(ActionDict("send_email", NoParameters), Dict([x |-> "1"])),
           Both(ActionDict("write_to_google_sheet", NoParameters), Dict([x |-> "1"])),
           Neither, EmptyObject }

\* the object used where the text around it is what varies
SampleObject == FinalAnswer(Dict([x |-> "1"]))

\* response.content: each object as bare JSON, and texts and fragment lists
\* around one object
LLMContents ==
    { StrContent(Dumps(o)) : o \in LLMObjects }
    \cup { StrContent(<< Txt, WS >> \o Dumps(SampleObject) \o << WS, Txt >>),
           StrContent(<< WS >> \o Dumps(SampleObject) \o << WS >>),
           StrContent(<< >>),
           StrContent(<< Txt >>),
           StrContent(<< LB, Members(SampleObject) >>),
           StrContent(<< Members(SampleObject), RB >>),
           StrContent(<< RB, Txt, LB >>),
           StrContent(<< LB, Txt, RB >>),
           StrContent(Dumps(SampleObject) \o << WS >> \o Dumps(SampleObject)),
           ListContent(<< >>),
           ListContent(<< TextFragment(Dumps(SampleObject)) >>),
           ListContent(<< OtherFragment >>),
           ListContent(<< StrFragment(<< Txt >>), TextFragment(Dumps(SampleObject)) >>),
           ListContent(<< TextFragment(<< Txt >>), TextFragment(Dumps(SampleObject)) >>),
           ListContent(<< StrFragment(<< Txt >>), StrFragment(Dumps(SampleObject)) >>) }

-----------------------------------------------------------------------------
(* The run.                                                                *)

\* run's locals outside a step
NoContent == StrContent(<< >>)

Init ==
    /\ config \in Workflows
    /\ pc = IF NeedsDelay(1) THEN "wait" ELSE "run"
    /\ idx = 1
    /\ state = initial_state
    /\ run_state = initial_state
    /\ llm_content = NoContent
    /\ response_json = EmptyObject
    /\ params = NoParameters
    /\ output = NoOutput
    /\ invoked = << >>
    /\ tool_exception = PyNone
    /\ llm_calls = 0
    /\ fault = "none"
    /\ trace = << >>
    /\ recorded = << >>
    /\ slept = << >>

\* agent_with_delay, lines 89-92: every node but the first sleeps first
Pause ==
    /\ pc = "wait"
    /\ slept' = Append(slept, [node |-> idx, seconds |-> delay_seconds])
    /\ pc' = "run"
    /\ UNCHANGED <<config, idx, state, run_state, llm_content, response_json,
                   params, output, invoked, tool_exception, llm_calls, fault,
                   trace, recorded>>

\* __call__ and run to line 50 where the model answers: the agent is handed
\* state['steps'], and _call_llm turns response.content into an object
CallLLM ==
    /\ pc = "run"
    /\ \E c \in LLMContents :
        /\ llm_content' = c
        /\ response_json' = call_llm(c)
    /\ llm_calls' = llm_calls + 1
    /\ run_state' = state
    /\ trace' = Append(trace, config[idx].id)
    /\ pc' = "dispatch"
    /\ UNCHANGED <<config, idx, state, params, output, invoked, tool_exception,
                   fault, recorded, slept>>

\* the failure of line 110 caught in run and turned into an error output
LLMFailsSwallowed ==
    /\ pc = "run"
    /\ llm_calls' = llm_calls + 1
    /\ run_state' = state
    /\ trace' = Append(trace, config[idx].id)
    /\ fault' = "CollaboratorFailure"
    /\ output' = ErrorOutput("LLM call failed.")
    /\ pc' = "merge"
    /\ UNCHANGED <<config, idx, state, llm_content, response_json, params,
                   invoked, tool_exception, recorded, slept>>

\* line 110 raising: nothing in _call_llm, run or the node catches it
LLMFails ==
    /\ pc = "run"
    /\ llm_calls' = llm_calls + 1
    /\ run_state' = state
    /\ trace' = Append(trace, config[idx].id)
    /\ fault' = "CollaboratorFailure"
    /\ pc' = "halted"
    /\ UNCHANGED <<config, idx, state, llm_content, response_json, params, output,
                   invoked, tool_exception, recorded, slept>>

\* run, lines 51-103: the decision is dispatched; run returns its output or
\* an exception escapes and ends the process
Dispatch ==
    /\ pc = "dispatch"
    /\ \E o \in RunOutcomes(config[idx].tools, response_json) :
        /\ params' = o.params
        /\ output' = o.output
        /\ invoked' = o.invoked
        /\ tool_exception' = o.exc
        /\ fault' = o.fault
        /\ pc' = IF o.fault = "none" THEN "merge" ELSE "halted"
    /\ config' = [config EXCEPT ![idx].tools = ToolsAfterRun(@, response_json)]
    /\ UNCHANGED <<idx, state, run_state, llm_content, response_json, llm_calls,
                   trace, recorded, slept>>

\* the node's lambda, line 98, and the edge out of it, lines 105-109: the
\* fragment is merged and the next node, or END, follows
UpdateState ==
    /\ pc = "merge"
    /\ state' = update_state(state, Fragment(config[idx].id, output))
    /\ recorded' = Append(recorded, Fragment(config[idx].id, output))
    /\ idx' = NextNode(idx)
    /\ pc' = IF idx >= Len(config) THEN "END"
             ELSE IF NeedsDelay(NextNode(idx)) THEN "wait" ELSE "run"
    /\ llm_content' = NoContent
    /\ response_json' = EmptyObject
    /\ params' = NoParameters
    /\ output' = NoOutput
    /\ invoked' = << >>
    /\ tool_exception' = PyNone
    /\ llm_calls' = 0
    /\ UNCHANGED <<config, run_state, fault, trace, slept>>

Next == Pause \/ CallLLM \/ LLMFails \/ Dispatch \/ UpdateState

Spec == Init /\ [][Next]_vars

-----------------------------------------------------------------------------
(* The extraction of _call_llm over every short text: one agent, whose     *)
(* model may answer any string of at most MaxTextLen tokens.               *)

MaxTextLen == 5

\* the objects a text may carry
ParseObjects ==
    { SampleObject,
      ToolCall(ActionDict("enrich_with_pdl", ParamDict([email |-> "lead@example.com"]))) }

\* the tokens texts are made of
TextTokens == { LB, RB, WS, Txt } \cup { Members(o) : o \in ParseObjects }

\* every text of at most MaxTextLen tokens
ParseTexts == UNION { [1..n -> TextTokens] : n \in 0..MaxTextLen }

\* main with a workflow of the one enrichment step
ParseInit ==
    /\ Init
    /\ config = << StepDefs[1] >>

\* lines 50 and 105-138: the agent is called and the model answers a string
ParseCall ==
    /\ pc = "run"
    /\ \E text \in ParseTexts :
        /\ llm_content' = StrContent(text)
        /\ response_json' = call_llm(StrContent(text))
    /\ llm_calls' = llm_calls + 1
    /\ run_state' = state
    /\ trace' = Append(trace, config[idx].id)
    /\ pc' = "dispatch"
    /\ UNCHANGED <<config, idx, state, params, output, invoked, tool_exception,
                   fault, recorded, slept>>

ParseNext == ParseCall \/ Dispatch \/ UpdateState

ParseSpec == ParseInit /\ [][ParseNext]_vars

-----------------------------------------------------------------------------
(* Properties.                                                             *)

\* run has been entered for the current step and has ended, one way or the other
RunEnded == pc = "merge" \/ (pc = "halted" /\ fault # "CollaboratorFailure")

\* the decision of this step is a tool call whose `action` is an object
IsToolCall == "action" \in response_json.keys /\ response_json.action.t = "dict"

\* the tool the model named, and the parameters it supplied
ToolName == response_json.action.tool_name
Supplied == GetParameters(response_json.action)

\* the model named a registered tool this agent has a binding for
IsBoundCall ==
    /\ IsToolCall
    /\ ToolName \in ToolNames
    /\ \E i \in 1..Len(config[idx].tools) : config[idx].tools[i].name = ToolName

\* the static config of this agent's binding for the named tool
BoundConfig ==
    LET ts == config[idx].tools
        first == CHOOSE i \in 1..Len(ts) :
                    ts[i].name = ToolName /\ \A j \in 1..(i - 1) : ts[j].name # ToolName
    IN ts[first].config

\* the ids of the steps whose fragment has been merged
Processed == { config[i].id : i \in 1..Len(recorded) }

\* the seed with the given fragments inserted one after the other
RECURSIVE SeedPlus(_)
SeedPlus(frs) ==
    IF Len(frs) = 0 THEN initial_state
    ELSE frs[Len(frs)] @@ SeedPlus(SubSeq(frs, 1, Len(frs) - 1))

\* C1: whenever the call of a registered, bound tool with all its required
\* parameters raises, run still returns, and the step output is
\* {error: "Tool '<name>' raised exception: <message>"}.
C1_ToolExceptionContained ==
    tool_exception # PyNone =>
        /\ pc = "merge"
        /\ fault = "none"
        /\ IsMapping(output)
        /\ "error" \in DOMAIN output.d
        /\ output.d["error"] =
              "Tool '" \o ToolName \o "' raised exception: " \o tool_exception

\* C1 witness: a tool body was entered and raised "timeout"
C1_Witness ==
    /\ pc = "merge"
    /\ tool_exception = "timeout"
    /\ Len(invoked) = 1
    /\ invoked[1].name = "track_apollo_campaign"

\* C2: whatever object the model emitted, run raises nothing, and returns a
\* mapping as output unless it hands on a final answer as it is.
C2_RunNeverRaises ==
    /\ fault \in {"none", "CollaboratorFailure"}
    /\ pc = "merge" =>
          IsMapping(output) \/ "final_answer" \in response_json.keys

\* C3: for a registered, bound tool called with a parameter object, if the
\* merged parameters lack a parameter that has no default, the tool is not
\* called and the output is the missing-parameters error naming every one.
C3_RequiredParameterGate ==
    (RunEnded /\ IsBoundCall /\ Supplied.t = "dict") =>
        LET sig == AVAILABLE_TOOLS[ToolName]
            lacking == { sig[i].name : i \in { j \in 1..Len(sig) :
                            ~sig[j].has_default /\ sig[j].name \notin DOMAIN params.d } }
            n == Cardinality(lacking)
        IN  lacking # {} =>
                /\ pc = "merge"
                /\ invoked = << >>
                /\ tool_exception = PyNone
                /\ \E names \in [1..n -> lacking] :
                      /\ { names[i] : i \in 1..n } = lacking
                      /\ output = ErrorOutput("Missing required parameters for tool '"
                                              \o ToolName \o "': " \o ReprList(names))

\* C3 witness: enrich_with_pdl bound with an api_key, the model supplies {}
C3_Witness ==
    /\ pc = "merge"
    /\ IsBoundCall
    /\ ToolName = "enrich_with_pdl"
    /\ Supplied = ParamDict(EmptyDict)
    /\ "email" \notin DOMAIN BoundConfig
    /\ invoked = << >>
    /\ output = ErrorOutput(
          "Missing required parameters for tool 'enrich_with_pdl': ['email']")

\* C4: after the merge, a configured key holds the config's value when the
\* model gave it no value, null or "", and the model's value otherwise; a
\* key the config lacks keeps the model's value.
C4_ConfigPrecedence ==
    (RunEnded /\ IsBoundCall /\ Supplied.t = "dict") =>
        /\ params.t = "dict"
        /\ DOMAIN params.d = DOMAIN Supplied.d \cup DOMAIN BoundConfig
        /\ \A k \in DOMAIN BoundConfig :
              IF k \notin DOMAIN Supplied.d THEN params.d[k] = BoundConfig[k]
              ELSE IF Supplied.d[k] = PyNone \/ Supplied.d[k] = ""
                   THEN params.d[k] = BoundConfig[k]
                   ELSE params.d[k] = Supplied.d[k]
        /\ \A k \in DOMAIN Supplied.d \ DOMAIN BoundConfig :
              params.d[k] = Supplied.d[k]

\* C4 witness: the model gives api_key "" and its own campaign_id, the
\* binding configures both
C4_Witness ==
    /\ pc = "merge"
    /\ IsBoundCall
    /\ Supplied = ParamDict([api_key |-> "", campaign_id |-> "llm-campaign"])
    /\ BoundConfig = [api_key |-> "cfg-key", campaign_id |-> "cfg-campaign"]
    /\ params = ParamDict([api_key |-> "cfg-key", campaign_id |-> "llm-campaign"])

\* the normalized text has no brace pair, or what lies between the first
\* opening and the last closing brace is no JSON object
ParseFails(content) ==
    LET text == Normalize(content) IN
    \/ \A i \in 1..Len(text) : text[i] # LB
    \/ \A i \in 1..Len(text) : text[i] # RB
    \/ ~Decodes(JsonStr(text))

\* C5: when the text cannot be parsed, the recorded step output is
\* {error: "Invalid JSON output from LLM."}.
C5_ParseFailureOutput ==
    (pc = "merge" /\ ParseFails(llm_content)) =>
        output = ErrorOutput("Invalid JSON output from LLM.")

\* C6: unless a language-model call fails, the run is never stuck before the
\* terminal node: whatever a step produced, the next one can run.
C6_RunCompletes ==
    pc = "END" \/ fault = "CollaboratorFailure" \/ ENABLED Next

\* C7 as stated: the keys of the state are exactly the ids of the steps
\* processed so far, N keys after N steps.
C7_KeysAreProcessedIds ==
    /\ DOMAIN state = Processed
    /\ Cardinality(DOMAIN state) = Len(recorded)

\* C7 amended: the keys are the seed's keys and the ids of the steps
\* processed so far; with no id among the seed's keys that is N + 1 keys
\* after N steps; each processed id holds that step's recorded output.
C7_KeysAreSeedAndProcessedIds ==
    /\ DOMAIN state = DOMAIN initial_state \cup Processed
    /\ Processed \cap DOMAIN initial_state = {} =>
          Cardinality(DOMAIN state) = Len(recorded) + Cardinality(DOMAIN initial_state)
    /\ \A i \in 1..Len(recorded) :
          /\ DOMAIN recorded[i] = { config[i].id }
          /\ state[config[i].id] = recorded[i][config[i].id]

\* C7 witness: two steps processed, neither under the seed's key
C7_Witness ==
    /\ pc = "END"
    /\ Len(recorded) = 2
    /\ Processed \cap DOMAIN initial_state = {}
    /\ Cardinality(DOMAIN state) = 3

\* C8 as stated: a step removes no key and leaves every entry that was
\* there before it, the seed's included, as it was.
C8_AppendOnly ==
    [][ \A k \in DOMAIN state : k \in DOMAIN state' /\ state'[k] = state[k] ]_vars

\* C8 amended: a step removes no key, adds or writes only the key of its own
\* id, and leaves every other entry as it was; the seed's entry is rewritten
\* exactly when the step's id is the seed's key.
C8_AppendOnlyButOwnKey ==
    [][ /\ \A k \in DOMAIN state : k \in DOMAIN state'
        /\ state' # state =>
              /\ pc = "merge"
              /\ DOMAIN state' = DOMAIN state \cup { config[idx].id }
              /\ \A k \in DOMAIN state : k # config[idx].id => state'[k] = state[k]
              /\ state'[config[idx].id] = [output |-> output] ]_vars

\* C8 witness: the second step has been merged, and the first step's entry
\* and the seed's are what they were
C8_Witness ==
    /\ Len(recorded) = 2
    /\ Processed \cap DOMAIN initial_state = {}
    /\ state[config[1].id] = recorded[1][config[1].id]
    /\ state["initial_icp"] = initial_state["initial_icp"]
    /\ state[config[2].id] = recorded[2][config[2].id]

\* C9: agents are invoked in list order, one at a time and once each; an
\* agent is invoked only when every earlier step is merged, with the seed
\* plus all their outputs; the run ends after the last listed step.
C9_StrictSequencing ==
    /\ Len(trace) <= Len(config)
    /\ trace = SubSeq(Ids(config), 1, Len(trace))
    /\ Len(recorded) <= Len(trace)
    /\ Len(trace) <= Len(recorded) + 1
    /\ idx = Len(recorded) + 1
    /\ state = SeedPlus(recorded)
    /\ Len(trace) = Len(recorded) + 1 => run_state = SeedPlus(recorded)
    /\ pc \in {"dispatch", "merge"} => Len(trace) = idx
    /\ pc \in {"wait", "run"} => Len(trace) = Len(recorded) /\ idx <= Len(config)
    /\ pc = "END" <=> (Len(recorded) = Len(config) /\ trace = Ids(config))

\* C9 witness: the second agent is running, called with the seed and the
\* first step's output
C9_Witness ==
    /\ pc = "dispatch"
    /\ idx = 2
    /\ trace = << config[1].id, config[2].id >>
    /\ run_state = recorded[1] @@ initial_state
    /\ config[1].id # "initial_icp"

\* C10: a tool call naming no registered tool (or no tool at all) yields
\* {error: "Tool '<name>' not found."} and calls nothing, bound or not.
C10_UnknownTool ==
    (RunEnded /\ IsToolCall /\ ToolName \notin ToolNames) =>
        /\ pc = "merge"
        /\ output = ErrorOutput("Tool '" \o PyStr(ToolName) \o "' not found.")
        /\ invoked = << >>
        /\ tool_exception = PyNone

\* C10 witness: the model names send_email, which the agent has a binding
\* for and the registry lacks
C10_Witness ==
    /\ pc = "merge"
    /\ IsToolCall
    /\ ToolName = "send_email"
    /\ \E i \in 1..Len(config[idx].tools) : config[idx].tools[i].name = "send_email"
    /\ output = ErrorOutput("Tool 'send_email' not found.")

\* the names of the tools this agent has a binding for
BoundNames == { config[idx].tools[i].name : i \in 1..Len(config[idx].tools) }

\* C11: a tool call naming a registered tool this agent has no binding for
\* yields {error: "Tool configuration for '<name>' not found for this
\* agent."} and calls nothing; whatever an agent calls is a tool it has a
\* binding for.
C11_UnboundTool ==
    /\ (RunEnded /\ IsToolCall /\ ToolName \in ToolNames /\ ToolName \notin BoundNames) =>
          /\ pc = "merge"
          /\ output = ErrorOutput("Tool configuration for '" \o ToolName
                                  \o "' not found for this agent.")
          /\ invoked = << >>
          /\ tool_exception = PyNone
    /\ \A i \in 1..Len(invoked) : invoked[i].name \in BoundNames \cap ToolNames

\* C11 witness: the enrichment agent, bound to enrich_with_pdl alone, is
\* told to call track_apollo_campaign
C11_Witness ==
    /\ pc = "merge"
    /\ config[idx].id = "enrichment"
    /\ IsToolCall
    /\ ToolName = "track_apollo_campaign"
    /\ output = NoConfigError("track_apollo_campaign")
    /\ invoked = << >>

\* C12: once the language-model call of step i has raised, the run is
\* halted for good: the steps before i are merged and step i is not, the
\* state is the seed plus those earlier outputs, step i was the last agent
\* entered, no tool was called in it, and nothing can happen any more.
C12_CollaboratorFailureFatal ==
    fault = "CollaboratorFailure" =>
        /\ pc = "halted"
        /\ Len(trace) = idx
        /\ Len(recorded) = idx - 1
        /\ state = SeedPlus(recorded)
        /\ \A k \in DOMAIN state :
              k \in DOMAIN initial_state \/ k \in { config[i].id : i \in 1..(idx - 1) }
        /\ invoked = << >>
        /\ ~ ENABLED Next

\* C12 witness: the model call of the second of two steps raised; the first
\* step's output is in the state, the second step has no entry
C12_Witness ==
    /\ fault = "CollaboratorFailure"
    /\ Len(config) = 2
    /\ idx = 2
    /\ Len(recorded) = 1
    /\ config[1].id \in DOMAIN state
    /\ config[2].id \notin DOMAIN state

\* C13: when the parsed object has a final_answer key and no action key, run
\* returns, the step output is the final_answer value as it stands, whether
\* or not it has the shape of the step's output schema, and no tool is
\* called.
C13_FinalAnswerVerbatim ==
    (RunEnded /\ "final_answer" \in response_json.keys
              /\ "action" \notin response_json.keys) =>
        /\ pc = "merge"
        /\ output = response_json.final_answer
        /\ invoked = << >>
        /\ tool_exception = PyNone

\* C13 witness: a step whose output schema asks for an object ends with the
\* bare string the model gave as its final answer
C13_Witness ==
    /\ pc = "merge"
    /\ config[idx].output_schema.type = "object"
    /\ "final_answer" \in response_json.keys
    /\ "action" \notin response_json.keys
    /\ response_json.final_answer = Scalar("done")
    /\ output = Scalar("done")

\* the nodes entered so far, the one being run included
Entered == IF pc \in {"wait", "END"} THEN idx - 1 ELSE idx

\* C14: the pauses taken so far are one of delay_seconds for each node
\* entered but the first, in order; a node waiting for its pause, or just
\* past it, has every earlier step merged and its own agent not yet called;
\* the first node is entered without a pause.
C14_InterStepPause ==
    /\ Len(slept) = (IF Entered = 0 THEN 0 ELSE Entered - 1)
    /\ \A j \in 1..Len(slept) : slept[j] = [node |-> j + 1, seconds |-> delay_seconds]
    /\ pc = "wait" => idx > 1
    /\ pc \in {"wait", "run"} => Len(recorded) = idx - 1 /\ Len(trace) = idx - 1
    /\ idx = 1 => slept = << >>

\* C14 witness: the second node has slept once, after the first step's merge
\* and before its agent is called
C14_Witness ==
    /\ pc = "run"
    /\ idx = 2
    /\ slept = << [node |-> 2, seconds |-> 30] >>
    /\ Len(recorded) = 1
    /\ trace = << config[1].id >>

\* the ids of the workflow's steps
StepIds == { config[i].id : i \in 1..Len(config) }

\* C15 as stated: in the final state there is one entry per step id and no
\* other, and every entry has an `output` field.
C15_EveryEntryHasOutput ==
    pc = "END" =>
        /\ DOMAIN state = StepIds
        /\ \A k \in DOMAIN state : "output" \in DOMAIN state[k]

\* C15: in the final state every step id has an entry, a mapping whose only
\* field is `output`; the other entries are those of the seed, as they were
\* seeded, without an `output` field.
C15_ProcessResultShape ==
    pc = "END" =>
        /\ DOMAIN state = StepIds \cup DOMAIN initial_state
        /\ \A k \in StepIds : DOMAIN state[k] = {"output"}
        /\ \A k \in DOMAIN state \ StepIds :
              /\ state[k] = initial_state[k]
              /\ "output" \notin DOMAIN state[k]

\* C15 witness: a two-step run has ended; both steps have their {output}
\* entry and the seed's initial_icp entry is still there, without one
C15_Witness ==
    /\ pc = "END"
    /\ Len(config) = 2
    /\ \A k \in StepIds : DOMAIN state[k] = {"output"}
    /\ "initial_icp" \in DOMAIN state \ StepIds
    /\ "output" \notin DOMAIN state["initial_icp"]

\* how run has ended for the current step
Ended == Outcome(fault, output, params, invoked, tool_exception)

\* C16: run treats the parsed object in exactly one way.  With an action key
\* it ends as the tool-call branch does for that action, a final_answer
\* carried alongside having no part in the output; with a final_answer key
\* alone the output is that value; with neither key the output is
\* {error: "Invalid LLM response format."} and nothing is called.
C16_ExactlyOneDecision ==
    RunEnded =>
        /\ "action" \in response_json.keys =>
              /\ Ended \in ToolCallBranch(config[idx].tools, response_json.action)
              /\ "final_answer" \in response_json.keys =>
                    output # response_json.final_answer
        /\ ("action" \notin response_json.keys
               /\ "final_answer" \in response_json.keys) =>
              Ended = Returns(response_json.final_answer, NoParameters, << >>)
        /\ ("action" \notin response_json.keys
               /\ "final_answer" \notin response_json.keys) =>
              /\ pc = "merge"
              /\ Ended = Returns(ErrorOutput("Invalid LLM response format."),
                                 NoParameters, << >>)

\* C16 witness: the object carries an action naming write_to_google_sheet
\* and a final_answer; the step ends with the tool-call branch's error
C16_Witness ==
    /\ pc = "merge"
    /\ "action" \in response_json.keys
    /\ "final_answer" \in response_json.keys
    /\ ToolName = "write_to_google_sheet"
    /\ IsMapping(output)
    /\ "error" \in DOMAIN output.d
    /\ response_json.final_answer = Dict([x |-> "1"])

\* C17: in a step the model is called once; at most one tool is called, at
\* most once, and only on a tool call naming a registered tool the agent
\* has a binding for, with no required parameter missing from the merged
\* parameters; and once the model has answered, the step ends with one
\* output, which the merge records as the one entry of its fragment.
C17_OneToolCallPerTurn ==
    /\ llm_calls <= 1
    /\ pc \in {"dispatch", "merge"} => llm_calls = 1
    /\ Len(invoked) <= 1
    /\ invoked # << >> =>
          /\ IsBoundCall
          /\ invoked[1].name = ToolName
          /\ params.t = "dict"
          /\ invoked[1].kwargs = params.d
          /\ MissingRequired(AVAILABLE_TOOLS[ToolName], params.d) = << >>
    /\ RunEnded => pc = "merge"
    /\ \A i \in 1..Len(recorded) : DOMAIN recorded[i] = { config[i].id }

\* C18: when the content is a list of fragments and one of them, the first
\* or a later one, carries the text of a decision object, that object is
\* what _call_llm returns.
C18_ContentNormalization ==
    (pc \in {"dispatch", "merge"} /\ llm_content.t = "list") =>
        \A i \in 1..Len(llm_content.l) :
            llm_content.l[i].text = Dumps(SampleObject) =>
                response_json = SampleObject

\* the token is whitespace or brace-free commentary
BraceFree(tok) == tok \in { WS, Txt }

\* s is the text of the object o with brace-free commentary around it
Surrounds(s, o) ==
    \E i \in 1..Len(s) : \E j \in i..Len(s) :
        /\ SubSeq(s, i, j) = Dumps(o)
        /\ \A k \in 1..(i - 1) : BraceFree(s[k])
        /\ \A k \in (j + 1)..Len(s) : BraceFree(s[k])

\* C19: once _call_llm has returned for a text, the object it returned is the
\* parse of what lies between the first opening and the last closing brace
\* of the stripped text (the decode-error object when that is no object);
\* so one object with brace-free commentary around it is returned as it is,
\* and a final answer so wrapped becomes the step output; and the call has
\* left the workflow state and the agent's definition as they were.
C19_ResponseExtraction ==
    pc \in {"dispatch", "merge", "halted"} =>
        LET text == Strip(llm_content.s)
            opens == { i \in 1..Len(text) : text[i] = LB }
            closes == { i \in 1..Len(text) : text[i] = RB }
            first == CHOOSE i \in opens : \A k \in opens : i <= k
            last == CHOOSE i \in closes : \A k \in closes : k <= i
        IN  /\ response_json =
                  (IF opens # {} /\ closes # {} /\ Decodes(SubSeq(text, first, last))
                   THEN Loads(SubSeq(text, first, last))
                   ELSE InvalidJSON)
            /\ \A o \in ParseObjects \cup { EmptyObject } :
                  Surrounds(llm_content.s, o) =>
                      /\ response_json = o
                      /\ (pc = "merge" /\ o = SampleObject) =>
                            output = SampleObject.final_answer
            /\ pc = "dispatch" =>
                  /\ state = run_state
                  /\ state = initial_state
                  /\ config = << StepDefs[1] >>
                  /\ recorded = << >>

\* C19 witness: commentary, the final-answer envelope, commentary; the step
\* output is the final answer
C19_Witness ==
    /\ pc = "merge"
    /\ llm_content = StrContent(<< Txt >> \o Dumps(SampleObject) \o << Txt >>)
    /\ response_json = SampleObject
    /\ output = Dict([x |-> "1"])

\* C20: no step changes the workflow's step definitions: the tool bindings
\* with their config mappings, the instructions and the output schema of
\* every agent stay what they were loaded as, whatever run does; and the
\* state mapping changes only in the merge that follows run, never while
\* the agent is running.
C20_RunFrame ==
    [][ /\ config' = config
        /\ pc \in {"wait", "run", "dispatch"} => state' = state
        /\ state' # state => pc = "merge" ]_vars

\* C20 witness: run has merged the binding's api_key into the parameters the
\* model supplied without one and has called the tool; the agent's
\* definition is still the one loaded
C20_Witness ==
    /\ pc = "merge"
    /\ config[idx] = StepDefs[1]
    /\ IsBoundCall
    /\ Supplied.t = "dict"
    /\ DOMAIN Supplied.d = {"email"}
    /\ DOMAIN params.d = {"email", "api_key"}
    /\ params.d["api_key"] = BoundConfig["api_key"]
    /\ DOMAIN BoundConfig = {"api_key"}
    /\ Len(invoked) = 1
    /\ state = run_state

=============================================================================
